---- MODULE Spec2Model ----
(***************************************************************************)
(* A model of wordle_solver.py: the hint oracle (GetHints), the constraint *)
(* matcher (MatchesHints, FilterByHints), the letter-frequency scorer, the *)
(* pair and triple opening searches, the solver classes and the drivers    *)
(* TrySolve and Solve.                                                     *)
(*                                                                         *)
(* A word is a sequence of one-letter strings; a hint string is a sequence *)
(* over "M", "O", "X".  Python's None is the empty sequence (both are      *)
(* falsy in "if not guess").                                               *)
(***************************************************************************)
EXTENDS Integers, Sequences, FiniteSets, TLC

VARIABLES
    solver,       \* the class of the solver object of the session
    driver,       \* "TrySolve" or "Solve": the loop that drives the solver
    answer,       \* the word the game holds (TrySolve's answer argument)
    guess_hints,  \* self.guess_hints
    candidates,   \* self.candidates
    ret,          \* the value the last SuggestGuess returned (None at first)
    pc,           \* where the driver is: "suggest", "guess", "hints", "check",
                  \* "done", "aborted"
    attempt,      \* the loop variable of the driver (0 in the first pass)
    driver_guess, \* the driver's local guess (the last line read, in Solve)
    driver_hints, \* the driver's local hints (the last line read, in Solve)
    result,       \* <<n>> once TrySolve has returned n, <<>> before
    args,         \* the arguments of a call of one of the pure functions
    fn,           \* the pure function that has been called ("" before)
    out           \* what that call returned

vars ==
    <<solver, driver, answer, guess_hints, candidates, ret, pc, attempt,
      driver_guess, driver_hints, result, args, fn, out>>

(***************************************************************************)
(* Letters and words.                                                      *)
(***************************************************************************)
Alphabet ==
    <<"A","B","C","D","E","F","G","H","I","J","K","L","M",
      "N","O","P","Q","R","S","T","U","V","W","X","Y","Z">>

Letters == {Alphabet[i] : i \in 1..Len(Alphabet)}

None == <<>>

\* Python's "x in s" for a string or list s.
In(x, s) == \E i \in 1..Len(s) : s[i] = x

\* Python's set(word).
SetOf(word) == {word[i] : i \in 1..Len(word)}

(***************************************************************************)
(* The lexicon.  The word files are not part of the source: the model      *)
(* takes CoreAnswers and the first NumExtraAnswers words of ExtraAnswers   *)
(* as valid-answers.txt, and likewise the non-answers as valid-guesses.txt.*)
(***************************************************************************)
NumExtraAnswers == 1
NumExtraNonAnswers == 1

PASTE == <<"P","A","S","T","E">>
TASTE == <<"T","A","S","T","E">>
CHIPS == <<"C","H","I","P","S">>
SAUTE == <<"S","A","U","T","E">>
AUDIO == <<"A","U","D","I","O">>
LEFTY == <<"L","E","F","T","Y">>
LYRIC == <<"L","Y","R","I","C">>
UPSET == <<"U","P","S","E","T">>
NOMAD == <<"N","O","M","A","D">>
BULLY == <<"B","U","L","L","Y">>
SPATE == <<"S","P","A","T","E">>
CHAOS == <<"C","H","A","O","S">>
ROATE == <<"R","O","A","T","E">>
PULIS == <<"P","U","L","I","S">>
CHYND == <<"C","H","Y","N","D">>
TAPES == <<"T","A","P","E","S">>
STARN == <<"S","T","A","R","N">>

\* The words the solver classes name are in the lexicon, as in the real files.
CoreAnswers == <<PASTE, TASTE, CHIPS, SAUTE, AUDIO, LEFTY, LYRIC, UPSET, NOMAD, BULLY>>
ExtraAnswers == <<SPATE, CHAOS>>
CoreNonAnswers == <<ROATE, PULIS, CHYND>>
ExtraNonAnswers == <<TAPES, STARN>>

VALID_ANSWERS == CoreAnswers \o SubSeq(ExtraAnswers, 1, NumExtraAnswers)
VALID_ANSWER_SET == SetOf(VALID_ANSWERS)
VALID_NON_ANSWER_GUESSES ==
    CoreNonAnswers \o SubSeq(ExtraNonAnswers, 1, NumExtraNonAnswers)
ALL_WORDS == VALID_ANSWERS \o VALID_NON_ANSWER_GUESSES

(***************************************************************************)
(* GetHints, MatchesHints, FilterByHints.                                  *)
(***************************************************************************)
RECURSIVE GetHintsLoop(_, _, _, _)
GetHintsLoop(guess, answer_, i, hints) ==
    IF i > Len(guess) THEN hints
    ELSE LET letter == guess[i]
             hint == IF letter = answer_[i] THEN "M"
                     ELSE IF In(letter, answer_) THEN "O"
                     ELSE "X"
         IN GetHintsLoop(guess, answer_, i + 1, Append(hints, hint))

\* GetHints with "letter in answer[i + 1:]" for "letter in answer".
GetHints_LaterOnly(guess, answer_) ==
    [i \in 1..Len(guess) |->
        IF guess[i] = answer_[i] THEN "M"
        ELSE IF In(guess[i], SubSeq(answer_, i + 1, Len(answer_))) THEN "O"
        ELSE "X"]

\* GetHints with its two arguments taken in the other order.
GetHints_ArgumentsSwapped(guess, answer_) == GetHintsLoop(answer_, guess, 1, <<>>)

GetHints(guess, answer_) == GetHintsLoop(guess, answer_, 1, <<>>)

RECURSIVE MatchesHintsLoop(_, _, _, _)
MatchesHintsLoop(word, guess, hints, i) ==
    IF i > Len(hints) THEN TRUE
    ELSE IF hints[i] = "M" THEN
        IF word[i] # guess[i] THEN FALSE
        ELSE MatchesHintsLoop(word, guess, hints, i + 1)
    ELSE IF hints[i] = "O" THEN
        IF word[i] = guess[i] THEN FALSE
        ELSE IF ~In(guess[i], word) THEN FALSE
        ELSE MatchesHintsLoop(word, guess, hints, i + 1)
    ELSE
        IF In(guess[i], word) THEN FALSE
        ELSE MatchesHintsLoop(word, guess, hints, i + 1)

\* MatchesHints without the test "word[i] == guess[i]" of the O branch.
MatchesHints_NoDisplaced(word, guess, hints) ==
    \A i \in 1..Len(hints) :
        IF hints[i] = "M" THEN word[i] = guess[i]
        ELSE IF hints[i] = "O" THEN In(guess[i], word)
        ELSE ~In(guess[i], word)

\* MatchesHints with "guess[i] == word[i]" for "guess[i] in word" in the
\* branch of X.
MatchesHints_AbsentHereOnly(word, guess, hints) ==
    \A i \in 1..Len(hints) :
        IF hints[i] = "M" THEN word[i] = guess[i]
        ELSE IF hints[i] = "O" THEN word[i] # guess[i] /\ In(guess[i], word)
        ELSE guess[i] # word[i]

MatchesHints(word, guess, hints) == MatchesHintsLoop(word, guess, hints, 1)

RECURSIVE FilterByHintsLoop(_, _, _, _, _)
FilterByHintsLoop(words, guess, hints, k, kept) ==
    IF k > Len(words) THEN kept
    ELSE FilterByHintsLoop(words, guess, hints, k + 1,
            IF MatchesHints(words[k], guess, hints)
            THEN Append(kept, words[k]) ELSE kept)

\* FilterByHints that filters the whole word list instead of its argument.
FilterByHints_OfAllWords(words, guess, hints) ==
    FilterByHintsLoop(ALL_WORDS, guess, hints, 1, <<>>)

\* FilterByHints that starts at the second word of the list.
FilterByHints_SkipFirst(words, guess, hints) ==
    FilterByHintsLoop(words, guess, hints, 2, <<>>)

FilterByHints(words, guess, hints) == FilterByHintsLoop(words, guess, hints, 1, <<>>)

(***************************************************************************)
(* The frequency scorer.  A frequency table is a function from every       *)
(* letter to a count (a defaultdict(int): a letter never counted reads 0). *)
(***************************************************************************)
\* GetLetterFrequencies: "for word in words: ... for letter in word:
\* letter_freq[letter] += 1".  Each pass of the inner loop is one pair <<k, i>>
\* of a word that is a valid answer and a position in it; a letter's count is
\* the number of passes that met that letter.
LetterPasses(words) ==
    UNION {{<<k, i>> : i \in 1..Len(words[k])} :
              k \in {m \in 1..Len(words) : words[m] \in VALID_ANSWER_SET}}

GetLetterFrequencies(words) ==
    LET passes == LetterPasses(words)
    IN [letter \in Letters |->
           Cardinality({p \in passes : words[p[1]][p[2]] = letter})]

\* sum(letter_freq[letter] for letter in S)
RECURSIVE SumFreq(_, _)
SumFreq(S, letter_freq) ==
    IF S = {} THEN 0
    ELSE LET letter == CHOOSE l \in S : TRUE
         IN letter_freq[letter] + SumFreq(S \ {letter}, letter_freq)

\* GetWordLetterFrequency with "for letter in word" for "for letter in set(word)".
RECURSIVE GetWordLetterFrequency_NoSet(_, _)
GetWordLetterFrequency_NoSet(word, letter_freq) ==
    IF word = <<>> THEN 0
    ELSE letter_freq[Head(word)] + GetWordLetterFrequency_NoSet(Tail(word), letter_freq)

GetWordLetterFrequency(word, letter_freq) == SumFreq(SetOf(word), letter_freq)

\* The loop of GetWordWithHighestLetterFrequencies; st = [best_word, max_freq].
RECURSIVE HighestLoop(_, _, _, _)
HighestLoop(candidates_, letter_freq, k, st) ==
    IF k > Len(candidates_) THEN st
    ELSE LET word == candidates_[k]
             freq == SumFreq(SetOf(word), letter_freq)
         IN HighestLoop(candidates_, letter_freq, k + 1,
                IF freq > st.max_freq
                THEN [best_word |-> word, max_freq |-> freq]
                ELSE st)

\* The result is [raised, value]: raised is TRUE when an assert fails.
GetWordWithHighestLetterFrequencies(words_for_freq, candidates_) ==
    IF words_for_freq = <<>> \/ candidates_ = <<>>
    THEN [raised |-> TRUE, value |-> None]
    ELSE LET letter_freq == GetLetterFrequencies(words_for_freq)
             st == HighestLoop(candidates_, letter_freq, 1,
                               [best_word |-> None, max_freq |-> 0])
         IN IF st.best_word = None
            THEN [raised |-> TRUE, value |-> None]
            ELSE [raised |-> FALSE, value |-> st.best_word]

(***************************************************************************)
(* sorted(candidate_freqs, key=lambda pair: pair[1], reverse=True): a      *)
(* stable sort, so entries of equal frequency keep their order.            *)
(***************************************************************************)
InsertByFreq(sorted, pair) ==
    LET p == Cardinality({i \in 1..Len(sorted) : sorted[i][2] >= pair[2]})
    IN SubSeq(sorted, 1, p) \o <<pair>> \o SubSeq(sorted, p + 1, Len(sorted))

RECURSIVE SortByFreqLoop(_, _, _)
SortByFreqLoop(pairs, k, sorted) ==
    IF k > Len(pairs) THEN sorted
    ELSE SortByFreqLoop(pairs, k + 1, InsertByFreq(sorted, pairs[k]))

SortByFreqDescending(pairs) == SortByFreqLoop(pairs, 1, <<>>)

(***************************************************************************)
(* GetWordPairsWithHighestLetterFrequencies; st = [max_freq, best_pairs].  *)
(***************************************************************************)
\* The inner loop of the pair search with the cut "<=" for "<".
RECURSIVE PairsLoopJ_CutTies(_, _, _, _, _, _)
PairsLoopJ_CutTies(sorted_candidates, candidate_to_freq, letter_freq, i, j, st) ==
    IF j > Len(sorted_candidates) THEN st
    ELSE LET word1 == sorted_candidates[i]
             word2 == sorted_candidates[j]
             freq == GetWordLetterFrequency(word1 \o word2, letter_freq)
         IN IF candidate_to_freq[word1] + candidate_to_freq[word2] <= st.max_freq THEN st
            ELSE PairsLoopJ_CutTies(sorted_candidates, candidate_to_freq, letter_freq, i, j + 1,
                    IF freq > st.max_freq
                    THEN [max_freq |-> freq, best_pairs |-> <<(<<word1, word2>>)>>]
                    ELSE IF freq = st.max_freq
                    THEN [st EXCEPT !.best_pairs = Append(st.best_pairs, <<word1, word2>>)]
                    ELSE st)

RECURSIVE PairsLoopJ(_, _, _, _, _, _)
PairsLoopJ(sorted_candidates, candidate_to_freq, letter_freq, i, j, st) ==
    IF j > Len(sorted_candidates) THEN st
    ELSE LET word1 == sorted_candidates[i]
             word2 == sorted_candidates[j]
             word1_freq == candidate_to_freq[word1]
             word2_freq == candidate_to_freq[word2]
             freq == GetWordLetterFrequency(word1 \o word2, letter_freq)
         IN IF word1_freq + word2_freq < st.max_freq THEN st
            ELSE PairsLoopJ(sorted_candidates, candidate_to_freq, letter_freq, i, j + 1,
                    IF freq > st.max_freq
                    THEN [max_freq |-> freq, best_pairs |-> <<(<<word1, word2>>)>>]
                    ELSE IF freq = st.max_freq
                    THEN [st EXCEPT !.best_pairs = Append(st.best_pairs, <<word1, word2>>)]
                    ELSE st)

RECURSIVE PairsLoopI(_, _, _, _, _)
PairsLoopI(sorted_candidates, candidate_to_freq, letter_freq, i, st) ==
    IF i > Len(sorted_candidates) THEN st
    ELSE PairsLoopI(sorted_candidates, candidate_to_freq, letter_freq, i + 1,
            PairsLoopJ(sorted_candidates, candidate_to_freq, letter_freq, i, i + 1, st))

GetWordPairsWithHighestLetterFrequencies(words) ==
    LET letter_freq == GetLetterFrequencies(words)
        candidate_freqs ==
            [k \in 1..Len(words) |-> <<words[k], GetWordLetterFrequency(words[k], letter_freq)>>]
        candidate_to_freq ==
            [w \in SetOf(words) |-> GetWordLetterFrequency(w, letter_freq)]
        sorted_candidate_freqs == SortByFreqDescending(candidate_freqs)
        sorted_candidates ==
            [k \in 1..Len(words) |-> sorted_candidate_freqs[k][1]]
    IN PairsLoopI(sorted_candidates, candidate_to_freq, letter_freq, 1,
                  [max_freq |-> 0, best_pairs |-> <<>>]).best_pairs

(***************************************************************************)
(* GetWordTriplesWithHighestLetterFrequencies.                             *)
(***************************************************************************)
\* "".join(sorted(set(word)))
NormalizeWordAsLetterSet(word) == SelectSeq(Alphabet, LAMBDA l : In(l, word))

\* The keys of candidate_to_word, in insertion order (a key keeps the place
\* of its first insertion).
RECURSIVE CandidateKeysLoop(_, _, _)
CandidateKeysLoop(words, k, keys) ==
    IF k > Len(words) THEN keys
    ELSE LET key == NormalizeWordAsLetterSet(words[k])
         IN CandidateKeysLoop(words, k + 1,
                IF In(key, keys) THEN keys ELSE Append(keys, key))

\* candidate_to_word[key]: a later word of the same key overwrites an earlier one.
CandidateToWord(words, key) ==
    LET last == CHOOSE k \in 1..Len(words) :
                    /\ NormalizeWordAsLetterSet(words[k]) = key
                    /\ \A m \in (k + 1)..Len(words) : NormalizeWordAsLetterSet(words[m]) # key
    IN words[last]

\* The innermost loop; c = [sorted_candidates, candidate_to_freq, letter_freq, words],
\* st = [max_freq, best_triples].
\* The innermost loop of the triple search with the cut
\* "candidate1_2_freq + candidate3_freq <= max_freq" (ties are cut too).
RECURSIVE TriplesLoopK_CutTies(_, _, _, _, _)
TriplesLoopK_CutTies(c, i, j, k, st) ==
    IF k > Len(c.sorted_candidates) THEN st
    ELSE LET candidate1 == c.sorted_candidates[i]
             candidate2 == c.sorted_candidates[j]
             candidate3 == c.sorted_candidates[k]
             candidate1_2_freq ==
                 GetWordLetterFrequency(candidate1 \o candidate2, c.letter_freq)
             candidate3_freq == c.candidate_to_freq[candidate3]
             freq == GetWordLetterFrequency(candidate1 \o candidate2 \o candidate3,
                                            c.letter_freq)
             triple == <<CandidateToWord(c.words, candidate1),
                         CandidateToWord(c.words, candidate2),
                         CandidateToWord(c.words, candidate3)>>
         IN IF candidate1_2_freq + candidate3_freq <= st.max_freq THEN st
            ELSE TriplesLoopK_CutTies(c, i, j, k + 1,
                    IF freq >= st.max_freq
                    THEN IF freq > st.max_freq
                         THEN [max_freq |-> freq, best_triples |-> <<triple>>]
                         ELSE [st EXCEPT !.best_triples = Append(st.best_triples, triple)]
                    ELSE st)

RECURSIVE TriplesLoopK(_, _, _, _, _)
TriplesLoopK(c, i, j, k, st) ==
    IF k > Len(c.sorted_candidates) THEN st
    ELSE LET candidate1 == c.sorted_candidates[i]
             candidate2 == c.sorted_candidates[j]
             candidate3 == c.sorted_candidates[k]
             candidate1_2_freq ==
                 GetWordLetterFrequency(candidate1 \o candidate2, c.letter_freq)
             candidate3_freq == c.candidate_to_freq[candidate3]
             freq == GetWordLetterFrequency(candidate1 \o candidate2 \o candidate3,
                                            c.letter_freq)
             triple == <<CandidateToWord(c.words, candidate1),
                         CandidateToWord(c.words, candidate2),
                         CandidateToWord(c.words, candidate3)>>
         IN IF candidate1_2_freq + candidate3_freq < st.max_freq THEN st
            ELSE TriplesLoopK(c, i, j, k + 1,
                    IF freq >= st.max_freq
                    THEN IF freq > st.max_freq
                         THEN [max_freq |-> freq, best_triples |-> <<triple>>]
                         ELSE [st EXCEPT !.best_triples = Append(st.best_triples, triple)]
                    ELSE st)

\* The middle loop of the triple search with the cut
\* "candidate1_freq + candidate2_freq < max_freq" (the third word forgotten).
RECURSIVE TriplesLoopJ_CutTwo(_, _, _, _)
TriplesLoopJ_CutTwo(c, i, j, st) ==
    IF j > Len(c.sorted_candidates) THEN st
    ELSE LET candidate1_freq == c.candidate_to_freq[c.sorted_candidates[i]]
             candidate2_freq == c.candidate_to_freq[c.sorted_candidates[j]]
         IN IF candidate1_freq + candidate2_freq < st.max_freq THEN st
            ELSE TriplesLoopJ_CutTwo(c, i, j + 1, TriplesLoopK(c, i, j, j + 1, st))

RECURSIVE TriplesLoopJ(_, _, _, _)
TriplesLoopJ(c, i, j, st) ==
    IF j > Len(c.sorted_candidates) THEN st
    ELSE LET candidate1_freq == c.candidate_to_freq[c.sorted_candidates[i]]
             candidate2_freq == c.candidate_to_freq[c.sorted_candidates[j]]
         IN IF candidate1_freq + 2 * candidate2_freq < st.max_freq THEN st
            ELSE TriplesLoopJ(c, i, j + 1, TriplesLoopK(c, i, j, j + 1, st))

RECURSIVE TriplesLoopI(_, _, _)
TriplesLoopI(c, i, st) ==
    IF i > Len(c.sorted_candidates) THEN st
    ELSE TriplesLoopI(c, i + 1, TriplesLoopJ(c, i, i + 1, st))

GetWordTriplesWithHighestLetterFrequencies(words) ==
    LET letter_freq == GetLetterFrequencies(words)
        keys == CandidateKeysLoop(words, 1, <<>>)
        candidate_freqs ==
            [k \in 1..Len(keys) |-> <<keys[k], GetWordLetterFrequency(keys[k], letter_freq)>>]
        candidate_to_freq ==
            [key \in SetOf(keys) |-> GetWordLetterFrequency(key, letter_freq)]
        sorted_candidate_freqs == SortByFreqDescending(candidate_freqs)
        sorted_candidates ==
            [k \in 1..Len(keys) |-> sorted_candidate_freqs[k][1]]
        c == [sorted_candidates |-> sorted_candidates,
              candidate_to_freq |-> candidate_to_freq,
              letter_freq |-> letter_freq,
              words |-> words]
    IN TriplesLoopI(c, 1, [max_freq |-> 0, best_triples |-> <<>>]).best_triples

(***************************************************************************)
(* The solver classes.  SuggestGuess of a class takes self.guess_hints and *)
(* self.candidates and yields [candidates, value, raised]: the candidates  *)
(* the call leaves in the object, the word it returns, and whether it      *)
(* ended in an AssertionError instead of returning.                        *)
(***************************************************************************)
RestrictCandidatesToValidAnswers(candidates_) ==
    SelectSeq(candidates_, LAMBDA word : word \in VALID_ANSWER_SET)

\* self.candidates = candidates_; return GetWordWithHighestLetterFrequencies(words_for_freq, pool)
ReturnHighest(candidates_, words_for_freq, pool) ==
    LET r == GetWordWithHighestLetterFrequencies(words_for_freq, pool)
    IN [candidates |-> candidates_, value |-> r.value, raised |-> r.raised]

ReturnWord(candidates_, word) ==
    [candidates |-> candidates_, value |-> word, raised |-> FALSE]

\* An "if self.guess_hints == [...]: return W" chain: the first key that
\* equals the history decides.
HasOverride(table, guess_hints_) == \E k \in 1..Len(table) : table[k].key = guess_hints_

OverrideGuess(table, guess_hints_) ==
    table[CHOOSE k \in 1..Len(table) :
            /\ table[k].key = guess_hints_
            /\ \A m \in 1..(k - 1) : table[m].key # guess_hints_].guess

HardModeEager_SuggestGuess(guess_hints_, candidates_) ==
    LET num_guesses == Len(guess_hints_)
        cands == IF num_guesses = 0
                 THEN RestrictCandidatesToValidAnswers(candidates_)
                 ELSE candidates_
    IN ReturnHighest(cands, cands, cands)

IgnoreEarliestHints_SuggestGuess(guess_hints_, candidates_) ==
    LET num_guesses == Len(guess_hints_)
        cands == IF num_guesses = 2
                 THEN RestrictCandidatesToValidAnswers(candidates_)
                 ELSE candidates_
    IN ReturnHighest(cands, cands, IF num_guesses < 2 THEN ALL_WORDS ELSE cands)

AudioLefty_SuggestGuess(guess_hints_, candidates_) ==
    LET num_guesses == Len(guess_hints_)
        cands == IF num_guesses = 3
                 THEN RestrictCandidatesToValidAnswers(candidates_)
                 ELSE candidates_
    IN IF num_guesses = 0 THEN ReturnWord(candidates_, AUDIO)
       ELSE IF num_guesses = 1 THEN ReturnWord(candidates_, LEFTY)
       ELSE ReturnHighest(cands, cands, cands)

ThreeCover_best_triple == <<LYRIC, UPSET, NOMAD>>

ThreeCover_SuggestGuess(guess_hints_, candidates_) ==
    LET num_guesses == Len(guess_hints_)
        cands == IF num_guesses = 4
                 THEN RestrictCandidatesToValidAnswers(candidates_)
                 ELSE candidates_
    IN IF num_guesses < 3 THEN ReturnWord(candidates_, ThreeCover_best_triple[num_guesses + 1])
       ELSE ReturnHighest(cands, cands, cands)

\* threshold = 3 ** (3 - num_guesses) * 4
Threshold(num_guesses) == (3 ^ (3 - num_guesses)) * 4

ExperiencedOverrides3 ==
    <<
      [key |->
          << << <<"L","Y","R","I","C">>, <<"X","X","X","X","X">> >>, << <<"U","P","S","E","T">>, <<"O","X","X","X","M">> >>, << <<"N","O","M","A","D">>, <<"O","X","X","O","X">> >> >>,
       guess |-> <<"V","U","G","H","S">>],
      [key |->
          << << <<"L","Y","R","I","C">>, <<"X","X","X","X","O">> >>, << <<"U","P","S","E","T">>, <<"X","X","X","X","O">> >>, << <<"N","O","M","A","D">>, <<"X","X","X","O","X">> >> >>,
       guess |-> <<"C","R","O","W","S">>],
      [key |->
          << << <<"L","Y","R","I","C">>, <<"X","X","X","X","X">> >>, << <<"U","P","S","E","T">>, <<"O","X","X","X","X">> >>, << <<"N","O","M","A","D">>, <<"O","M","X","X","M">> >> >>,
       guess |-> <<"F","R","O","W","N">>],
      [key |->
          << << <<"L","Y","R","I","C">>, <<"O","X","O","O","X">> >>, << <<"U","P","S","E","T">>, <<"X","X","X","X","X">> >>, << <<"W","H","I","R","L">>, <<"X","X","M","O","M">> >> >>,
       guess |-> <<"G","R","E","E","K">>]
    >>

ExperiencedOverrides4 ==
    <<
      [key |->
          << << <<"L","Y","R","I","C">>, <<"X","X","O","X","X">> >>, << <<"U","P","S","E","T">>, <<"X","X","X","M","X">> >>, << <<"N","O","M","A","D">>, <<"X","M","X","X","X">> >>, << <<"W","O","K","E","R">>, <<"X","M","X","M","M">> >> >>,
       guess |-> <<"R","A","V","E","S">>],
      [key |->
          << << <<"L","Y","R","I","C">>, <<"X","X","X","X","X">> >>, << <<"U","P","S","E","T">>, <<"X","X","M","O","O">> >>, << <<"N","O","M","A","D">>, <<"X","X","X","O","X">> >>, << <<"W","A","S","T","E">>, <<"X","M","M","M","M">> >> >>,
       guess |-> <<"T","O","O","T","H">>],
      [key |->
          << << <<"L","Y","R","I","C">>, <<"X","X","X","X","X">> >>, << <<"U","P","S","E","T">>, <<"X","X","O","O","O">> >>, << <<"N","O","M","A","D">>, <<"X","X","X","O","X">> >>, << <<"S","T","A","K","E">>, <<"M","M","M","X","M">> >> >>,
       guess |-> <<"G","O","A","T","S">>],
      [key |->
          << << <<"L","Y","R","I","C">>, <<"O","X","O","O","X">> >>, << <<"U","P","S","E","T">>, <<"X","X","X","X","X">> >>, << <<"N","O","M","A","D">>, <<"X","X","X","X","X">> >>, << <<"W","H","I","R","L">>, <<"X","X","M","O","M">> >> >>,
       guess |-> <<"F","R","O","G","S">>],
      [key |->
          << << <<"L","Y","R","I","C">>, <<"O","O","X","X","X">> >>, << <<"U","P","S","E","T">>, <<"X","X","X","X","X">> >>, << <<"N","O","M","A","D">>, <<"X","M","X","X","X">> >>, << <<"J","O","W","L","Y">>, <<"X","M","X","M","M">> >> >>,
       guess |-> <<"F","R","O","G","S">>],
      [key |->
          << << <<"L","Y","R","I","C">>, <<"O","O","X","O","X">> >>, << <<"U","P","S","E","T">>, <<"X","X","X","X","X">> >>, << <<"N","O","M","A","D">>, <<"X","X","X","X","X">> >>, << <<"B","I","G","L","Y">>, <<"X","M","X","M","M">> >> >>,
       guess |-> <<"F","R","O","W","N">>],
      [key |->
          << << <<"L","Y","R","I","C">>, <<"X","X","O","X","X">> >>, << <<"U","P","S","E","T">>, <<"X","X","X","M","X">> >>, << <<"N","O","M","A","D">>, <<"X","M","X","X","X">> >>, << <<"V","O","W","E","R">>, <<"X","M","X","M","M">> >> >>,
       guess |-> <<"B","O","O","K","S">>],
      [key |->
          << << <<"L","Y","R","I","C">>, <<"O","O","X","O","X">> >>, << <<"U","P","S","E","T">>, <<"X","X","X","X","X">> >>, << <<"N","O","M","A","D">>, <<"X","X","X","X","X">> >>, << <<"F","I","L","L","Y">>, <<"X","M","M","M","M">> >> >>,
       guess |-> <<"H","O","B","B","Y">>],
      [key |->
          << << <<"L","Y","R","I","C">>, <<"O","X","X","X","X">> >>, << <<"U","P","S","E","T">>, <<"O","X","O","X","X">> >>, << <<"N","O","M","A","D">>, <<"X","X","X","X","X">> >>, << <<"H","U","L","K","S">>, <<"O","O","O","X","O">> >> >>,
       guess |-> <<"B","A","R","F","S">>]
    >>

NewOverrides2 ==
    <<
      [key |->
          << << <<"R","O","A","T","E">>, <<"X","X","O","M","M">> >>, << <<"S","A","U","T","E">>, <<"O","M","X","M","M">> >> >>,
       guess |-> <<"C","H","I","P","S">>]
    >>

NewOverrides3 ==
    <<
      [key |->
          << << <<"R","O","A","T","E">>, <<"X","M","X","X","X">> >>, << <<"P","U","L","I","S">>, <<"X","O","X","X","X">> >>, << <<"C","H","Y","N","D">>, <<"X","X","X","M","M">> >> >>,
       guess |-> <<"B","O","W","E","R">>],
      [key |->
          << << <<"R","O","A","T","E">>, <<"O","X","O","X","O">> >>, << <<"P","U","L","I","S">>, <<"X","X","X","X","X">> >>, << <<"C","H","Y","N","D">>, <<"X","X","X","X","X">> >> >>,
       guess |-> <<"W","A","G","E","R">>],
      [key |->
          << << <<"R","O","A","T","E">>, <<"O","X","O","O","O">> >>, << <<"P","U","L","I","S">>, <<"X","X","X","X","X">> >>, << <<"C","H","Y","N","D">>, <<"X","X","X","X","X">> >> >>,
       guess |-> <<"T","A","M","E","R">>],
      [key |->
          << << <<"R","O","A","T","E">>, <<"X","X","O","O","X">> >>, << <<"P","U","L","I","S">>, <<"X","O","X","X","X">> >>, << <<"C","H","Y","N","D">>, <<"X","X","X","M","X">> >> >>,
       guess |-> <<"T","A","N","G","O">>],
      [key |->
          << << <<"R","O","A","T","E">>, <<"X","X","O","O","X">> >>, << <<"P","U","L","I","S">>, <<"X","X","X","X","X">> >>, << <<"C","H","Y","N","D">>, <<"O","O","X","X","X">> >> >>,
       guess |-> <<"B","R","O","W","N">>]
    >>

NewOverrides4 ==
    <<
      [key |->
          << << <<"R","O","A","T","E">>, <<"X","X","X","O","X">> >>, << <<"P","U","L","I","S">>, <<"X","X","X","O","X">> >>, << <<"C","H","Y","N","D">>, <<"X","O","X","X","X">> >>, << <<"M","I","G","H","T">>, <<"X","M","M","M","M">> >> >>,
       guess |-> <<"F","R","O","W","N">>],
      [key |->
          << << <<"R","O","A","T","E">>, <<"O","X","X","X","O">> >>, << <<"P","U","L","I","S">>, <<"X","X","X","X","X">> >>, << <<"C","H","Y","N","D">>, <<"X","X","O","X","X">> >>, << <<"J","E","R","K","Y">>, <<"X","M","M","X","M">> >> >>,
       guess |-> <<"B","L","O","O","M">>]
    >>


Experienced_best_triple == <<LYRIC, UPSET, NOMAD>>

Experienced_SuggestGuess(guess_hints_, candidates_) ==
    LET num_guesses == Len(guess_hints_)
        restricted == RestrictCandidatesToValidAnswers(candidates_)
    IN IF num_guesses < 3 THEN
           IF Len(candidates_) <= Threshold(num_guesses)
           THEN ReturnHighest(restricted, restricted, restricted)
           ELSE ReturnWord(candidates_, Experienced_best_triple[num_guesses + 1])
       ELSE IF num_guesses = 3 /\ HasOverride(ExperiencedOverrides3, guess_hints_)
       THEN ReturnWord(candidates_, OverrideGuess(ExperiencedOverrides3, guess_hints_))
       ELSE IF num_guesses = 4 THEN
           IF HasOverride(ExperiencedOverrides4, guess_hints_)
           THEN ReturnWord(restricted, OverrideGuess(ExperiencedOverrides4, guess_hints_))
           ELSE ReturnHighest(restricted, restricted, restricted)
       ELSE ReturnHighest(candidates_, candidates_, candidates_)

New_best_triple == <<ROATE, PULIS, CHYND>>

\* NewThreeCoverWordleSolver.SuggestGuess with the test of the threshold
\* before the test of the two-guess override.
New_SuggestGuess_ThresholdFirst(guess_hints_, candidates_) ==
    LET num_guesses == Len(guess_hints_)
        restricted == RestrictCandidatesToValidAnswers(candidates_)
    IN IF num_guesses < 3 THEN
           IF Len(candidates_) <= Threshold(num_guesses)
           THEN ReturnHighest(restricted, restricted, restricted)
           ELSE IF HasOverride(NewOverrides2, guess_hints_)
           THEN ReturnWord(candidates_, OverrideGuess(NewOverrides2, guess_hints_))
           ELSE ReturnWord(candidates_, New_best_triple[num_guesses + 1])
       ELSE IF num_guesses = 3 /\ HasOverride(NewOverrides3, guess_hints_)
       THEN ReturnWord(candidates_, OverrideGuess(NewOverrides3, guess_hints_))
       ELSE IF num_guesses = 4 THEN
           IF HasOverride(NewOverrides4, guess_hints_)
           THEN ReturnWord(restricted, OverrideGuess(NewOverrides4, guess_hints_))
           ELSE ReturnHighest(restricted, restricted, restricted)
       ELSE ReturnHighest(candidates_, candidates_, candidates_)

New_SuggestGuess(guess_hints_, candidates_) ==
    LET num_guesses == Len(guess_hints_)
        restricted == RestrictCandidatesToValidAnswers(candidates_)
    IN IF num_guesses < 3 THEN
           IF HasOverride(NewOverrides2, guess_hints_)
           THEN ReturnWord(candidates_, OverrideGuess(NewOverrides2, guess_hints_))
           ELSE IF Len(candidates_) <= Threshold(num_guesses)
           THEN ReturnHighest(restricted, restricted, restricted)
           ELSE ReturnWord(candidates_, New_best_triple[num_guesses + 1])
       ELSE IF num_guesses = 3 /\ HasOverride(NewOverrides3, guess_hints_)
       THEN ReturnWord(candidates_, OverrideGuess(NewOverrides3, guess_hints_))
       ELSE IF num_guesses = 4 THEN
           IF HasOverride(NewOverrides4, guess_hints_)
           THEN ReturnWord(restricted, OverrideGuess(NewOverrides4, guess_hints_))
           ELSE ReturnHighest(restricted, restricted, restricted)
       ELSE ReturnHighest(candidates_, candidates_, candidates_)

Solvers ==
    {"HardModeEagerWordleSolver", "IgnoreEarliestHintsWordleSolver",
     "AudioLeftyWordleSolver", "ThreeCoverWordleSolver",
     "ExperiencedThreeCoverWordleSolver", "NewThreeCoverWordleSolver"}

\* solver.SuggestGuess(): the method of the object's class.
SuggestGuessOf(solver_, guess_hints_, candidates_) ==
    CASE solver_ = "HardModeEagerWordleSolver" ->
            HardModeEager_SuggestGuess(guess_hints_, candidates_)
      [] solver_ = "IgnoreEarliestHintsWordleSolver" ->
            IgnoreEarliestHints_SuggestGuess(guess_hints_, candidates_)
      [] solver_ = "AudioLeftyWordleSolver" ->
            AudioLefty_SuggestGuess(guess_hints_, candidates_)
      [] solver_ = "ThreeCoverWordleSolver" ->
            ThreeCover_SuggestGuess(guess_hints_, candidates_)
      [] solver_ = "ExperiencedThreeCoverWordleSolver" ->
            Experienced_SuggestGuess(guess_hints_, candidates_)
      [] solver_ = "NewThreeCoverWordleSolver" ->
            New_SuggestGuess(guess_hints_, candidates_)

(***************************************************************************)
(* The session: TrySolve(solver, answer) and Solve(solver_factory).  Both  *)
(* loop "for attempt in range(6)": suggest, read a guess and its hints,    *)
(* stop on MMMMM, else MakeGuess.  TrySolve guesses what the solver        *)
(* suggests and computes the hints from its answer; in Solve a person      *)
(* types the guess and the hints.                                          *)
(***************************************************************************)
MaxAttempts == 6

AllMatch == <<"M","M","M","M","M">>

CRANE == <<"C","R","A","N","E">>
TRACE == <<"T","R","A","C","E">>

\* str.upper() of a line typed at a prompt.
LowerAlphabet ==
    <<"a","b","c","d","e","f","g","h","i","j","k","l","m",
      "n","o","p","q","r","s","t","u","v","w","x","y","z">>

Upper(line) ==
    [i \in 1..Len(line) |->
        IF \E k \in 1..Len(LowerAlphabet) : LowerAlphabet[k] = line[i]
        THEN Alphabet[CHOOSE k \in 1..Len(LowerAlphabet) : LowerAlphabet[k] = line[i]]
        ELSE line[i]]

\* What the person at the prompts of Solve may type besides the suggestion
\* and the true hints: words of the lexicon, an empty line, a word that is
\* not in the lexicon, hint strings that are well formed, too short, or hold
\* a symbol other than M, O, X.
UserGuesses == {ROATE, SAUTE}
UserHints == {<<"X","X","X","X","X">>}
UserBadGuesses == {<<>>, TRACE, <<"s","a","u","t","e">>}
UserBadHints == {<<"M","M">>, <<"M","O","X","Z","M">>, <<"x","x","x","x","x">>}

IsValidGuess(guess_) == In(guess_, ALL_WORDS)

\* IsValidHints that tests the length only.
IsValidHints_LengthOnly(hints_) == Len(hints_) = 5

IsValidHints(hints_) ==
    /\ Len(hints_) = 5
    /\ \A i \in 1..Len(hints_) : hints_[i] \in {"M", "O", "X"}

\* The lines the two prompts of Solve can read.
GuessInputs == UserGuesses \cup UserBadGuesses \cup {ret}

HintInputs(guess_) == UserHints \cup UserBadHints \cup {GetHints(guess_, answer)}

NoCall == [args |-> <<>>, fn |-> "", out |-> <<>>]

Init ==
    /\ solver \in Solvers
    /\ driver \in {"TrySolve", "Solve"}
    /\ answer \in SetOf(ALL_WORDS)
    /\ guess_hints = <<>>
    /\ candidates = ALL_WORDS
    /\ ret = None
    /\ pc = "suggest"
    /\ attempt = 0
    /\ driver_guess = None /\ driver_hints = None /\ result = <<>>
    /\ args = NoCall.args /\ fn = NoCall.fn /\ out = NoCall.out

\* guess = solver.SuggestGuess(), and the test "if not guess" of the driver:
\* TrySolve returns 0, Solve goes on to its prompt.
SuggestGuess ==
    /\ pc = "suggest"
    /\ LET r == SuggestGuessOf(solver, guess_hints, candidates)
       IN /\ candidates' = r.candidates
          /\ ret' = r.value
          /\ driver_guess' = IF driver = "TrySolve" /\ ~r.raised THEN r.value ELSE driver_guess
          /\ pc' = IF r.raised THEN "aborted"
                   ELSE IF driver = "Solve" THEN "guess"
                   ELSE IF r.value = None THEN "done"
                   ELSE "hints"
          /\ result' = IF driver = "TrySolve" /\ ~r.raised /\ r.value = None
                       THEN <<0>> ELSE result
    /\ UNCHANGED <<solver, driver, answer, guess_hints, attempt, driver_hints, args, fn, out>>

\* One pass of the first "while True" of Solve: guess = input(...).upper();
\* an empty line lists the candidates, an invalid guess is asked again.
ReadGuess ==
    /\ pc = "guess"
    /\ \E line \in GuessInputs :
          /\ driver_guess' = Upper(line)
          /\ pc' = IF Upper(line) = <<>> THEN "guess"
                   ELSE IF IsValidGuess(Upper(line)) THEN "hints"
                   ELSE "guess"
    /\ UNCHANGED <<solver, driver, answer, guess_hints, candidates, ret, attempt,
                   driver_hints, result, args, fn, out>>

\* hints = GetHints(guess, answer) in TrySolve; one pass of the second
\* "while True" of Solve: hints = input(...).upper(), asked again if invalid.
ReadHints ==
    /\ pc = "hints"
    /\ IF driver = "TrySolve"
       THEN /\ driver_hints' = GetHints(driver_guess, answer)
            /\ pc' = "check"
       ELSE \E line \in HintInputs(driver_guess) :
               /\ driver_hints' = Upper(line)
               /\ pc' = IF IsValidHints(Upper(line)) THEN "check" ELSE "hints"
    /\ UNCHANGED <<solver, driver, answer, guess_hints, candidates, ret, attempt,
                   driver_guess, result, args, fn, out>>

\* if hints == "MMMMM": return attempt + 1 / break
Solved ==
    /\ pc = "check"
    /\ driver_hints = AllMatch
    /\ pc' = "done"
    /\ result' = IF driver = "TrySolve" THEN <<attempt + 1>> ELSE result
    /\ UNCHANGED <<solver, driver, answer, guess_hints, candidates, ret, attempt,
                   driver_guess, driver_hints, args, fn, out>>

\* The loop body without the test of "MMMMM": every hint string is recorded.
MakeGuess_AlsoOnMatch ==
    /\ pc = "check"
    /\ guess_hints' = Append(guess_hints, <<driver_guess, driver_hints>>)
    /\ candidates' = FilterByHints(candidates, driver_guess, driver_hints)
    /\ attempt' = attempt + 1
    /\ pc' = IF attempt + 1 < MaxAttempts THEN "suggest" ELSE "done"
    /\ result' = IF attempt + 1 < MaxAttempts \/ driver = "Solve" THEN result ELSE <<0>>
    /\ UNCHANGED <<solver, driver, answer, ret, driver_guess, driver_hints, args, fn, out>>

\* The loop body with a MakeGuess that keeps the last pair only
\* (self.guess_hints = [(guess, hints)]).
MakeGuess_KeepsLastOnly ==
    /\ pc = "check"
    /\ driver_hints # AllMatch
    /\ guess_hints' = <<<<driver_guess, driver_hints>>>>
    /\ candidates' = FilterByHints(candidates, driver_guess, driver_hints)
    /\ attempt' = attempt + 1
    /\ pc' = IF attempt + 1 < MaxAttempts THEN "suggest" ELSE "done"
    /\ result' = IF attempt + 1 < MaxAttempts \/ driver = "Solve" THEN result ELSE <<0>>
    /\ UNCHANGED <<solver, driver, answer, ret, driver_guess, driver_hints, args, fn, out>>

\* solver.MakeGuess(guess, hints), and the end of the loop body: the next
\* pass, or the end of the loop after MaxAttempts passes (TrySolve returns 0).
MakeGuess ==
    /\ pc = "check"
    /\ driver_hints # AllMatch
    /\ IF In(driver_guess, ALL_WORDS)
       THEN /\ guess_hints' = Append(guess_hints, <<driver_guess, driver_hints>>)
            /\ candidates' = FilterByHints(candidates, driver_guess, driver_hints)
            /\ attempt' = attempt + 1
            /\ pc' = IF attempt + 1 < MaxAttempts THEN "suggest" ELSE "done"
            /\ result' = IF attempt + 1 < MaxAttempts \/ driver = "Solve"
                         THEN result ELSE <<0>>
       ELSE /\ pc' = "aborted"
            /\ UNCHANGED <<guess_hints, candidates, attempt, result>>
    /\ UNCHANGED <<solver, driver, answer, ret, driver_guess, driver_hints, args, fn, out>>

Next == SuggestGuess \/ ReadGuess \/ ReadHints \/ Solved \/ MakeGuess

Spec == Init /\ [][Next]_vars

(***************************************************************************)
(* Calls of the pure functions.  Each specification below draws the        *)
(* arguments of one function in its initial state and has one action, the  *)
(* call; no solver object exists in these specifications.                  *)
(***************************************************************************)
PureWordLen == 2
MaxListLen == 2
MaxWords == 4

PureLetters == {"A", "B"}

NoSession ==
    /\ solver = "" /\ driver = "" /\ answer = None /\ guess_hints = <<>>
    /\ candidates = <<>> /\ ret = None /\ pc = "none"
    /\ attempt = 0 /\ driver_guess = None /\ driver_hints = None /\ result = <<>>

\* The words of PureWordLen letters over PureLetters, and the hint strings of
\* that length.
PureWords == [1..PureWordLen -> PureLetters]
PureHints == [1..PureWordLen -> {"M", "O", "X"}]

\* The lists of at most n entries over the set S.
ListsOver(S, n) == UNION {[1..m -> S] : m \in 0..n}

\* The sub-lists of ALL_WORDS (entries in lexicon order) of at most MaxWords words.
SubList(I) == SelectSeq(ALL_WORDS, LAMBDA w : \E i \in I : ALL_WORDS[i] = w)
WordLists ==
    {SubList(I) : I \in {J \in SUBSET (1..Len(ALL_WORDS)) : Cardinality(J) <= MaxWords}}

\* What a call leaves alone.
callFrame ==
    <<args, solver, driver, answer, guess_hints, candidates, ret, pc, attempt,
      driver_guess, driver_hints, result>>

\* ---- GetHints(guess, answer)
InitGetHints ==
    /\ NoSession
    /\ args \in {[guess |-> g, answer |-> a] :
                    <<g, a>> \in (PureWords \X PureWords)
                                 \cup (SetOf(ALL_WORDS) \X SetOf(ALL_WORDS))
                                 \cup ({CRANE, TRACE} \X {CRANE, TRACE})}
    /\ fn = "" /\ out = <<>>

CallGetHints ==
    /\ fn = ""
    /\ fn' = "GetHints"
    /\ out' = GetHints(args.guess, args.answer)
    /\ UNCHANGED callFrame

SpecGetHints == InitGetHints /\ [][CallGetHints]_vars

\* ---- FilterByHints(words, guess, hints)
InitFilterByHints ==
    /\ NoSession
    /\ args \in {[words |-> ws, guess |-> g, hints |-> h] :
                    ws \in ListsOver(PureWords, MaxListLen), g \in PureWords, h \in PureHints}
                 \cup {[words |-> ALL_WORDS, guess |-> g, hints |-> h] :
                          g \in SetOf(ALL_WORDS), h \in [1..5 -> {"M", "O", "X"}]}
    /\ fn = "" /\ out = <<>>

CallFilterByHints ==
    /\ fn = ""
    /\ fn' = "FilterByHints"
    /\ out' = FilterByHints(args.words, args.guess, args.hints)
    /\ UNCHANGED callFrame

SpecFilterByHints == InitFilterByHints /\ [][CallFilterByHints]_vars

\* ---- GetLetterFrequencies(words)
InitWordList ==
    /\ NoSession
    /\ args \in {[words |-> ws] : ws \in WordLists}
    /\ fn = "" /\ out = <<>>

CallGetLetterFrequencies ==
    /\ fn = ""
    /\ fn' = "GetLetterFrequencies"
    /\ out' = GetLetterFrequencies(args.words)
    /\ UNCHANGED callFrame

SpecGetLetterFrequencies == InitWordList /\ [][CallGetLetterFrequencies]_vars

\* ---- GetWordPairsWithHighestLetterFrequencies(words)
CallGetWordPairs ==
    /\ fn = ""
    /\ fn' = "GetWordPairsWithHighestLetterFrequencies"
    /\ out' = GetWordPairsWithHighestLetterFrequencies(args.words)
    /\ UNCHANGED callFrame

SpecGetWordPairs == InitWordList /\ [][CallGetWordPairs]_vars

\* ---- GetWordTriplesWithHighestLetterFrequencies(words)
CallGetWordTriples ==
    /\ fn = ""
    /\ fn' = "GetWordTriplesWithHighestLetterFrequencies"
    /\ out' = GetWordTriplesWithHighestLetterFrequencies(args.words)
    /\ UNCHANGED callFrame

SpecGetWordTriples == InitWordList /\ [][CallGetWordTriples]_vars

\* ---- The three scores the pair search takes of two words of its list:
\* candidate_to_freq of each and GetWordLetterFrequency(word1 + word2, letter_freq).
InitScores ==
    /\ NoSession
    /\ args \in {[words |-> ws, i |-> i, j |-> j] :
                    ws \in WordLists, i \in 1..MaxWords, j \in 1..MaxWords}
    /\ args.i < args.j /\ args.j <= Len(args.words)
    /\ fn = "" /\ out = <<>>

CallGetWordLetterFrequency ==
    /\ fn = ""
    /\ fn' = "GetWordLetterFrequency"
    /\ LET letter_freq == GetLetterFrequencies(args.words)
           word1 == args.words[args.i]
           word2 == args.words[args.j]
       IN out' = [word1_freq |-> GetWordLetterFrequency(word1, letter_freq),
                  word2_freq |-> GetWordLetterFrequency(word2, letter_freq),
                  freq |-> GetWordLetterFrequency(word1 \o word2, letter_freq)]
    /\ UNCHANGED callFrame

SpecScores == InitScores /\ [][CallGetWordLetterFrequency]_vars

\* ---- GetWordWithHighestLetterFrequencies(words_for_freq, candidates)
\* The lists of at most MaxListLen words of the lexicon, in lexicon order, and
\* the same lists back to front.
Reverse(s) == [k \in 1..Len(s) |-> s[Len(s) + 1 - k]]
ShortWordLists ==
    {SubList(I) : I \in {J \in SUBSET (1..Len(ALL_WORDS)) : Cardinality(J) <= MaxListLen}}

InitHighest ==
    /\ NoSession
    /\ args \in {[words_for_freq |-> ws, candidates |-> cs] :
                    ws \in ShortWordLists,
                    cs \in ShortWordLists \cup {Reverse(l) : l \in ShortWordLists}}
    /\ fn = "" /\ out = <<>>

CallGetWordWithHighestLetterFrequencies ==
    /\ fn = ""
    /\ fn' = "GetWordWithHighestLetterFrequencies"
    /\ out' = GetWordWithHighestLetterFrequencies(args.words_for_freq, args.candidates)
    /\ UNCHANGED callFrame

SpecHighest == InitHighest /\ [][CallGetWordWithHighestLetterFrequencies]_vars

\* ---- solver.SuggestGuess() of the two classes with override tables
\* The override tables of a class, the histories that are keys of some table,
\* and the histories that are a key without its last pair.
OverrideTables(solver_) ==
    IF solver_ = "ExperiencedThreeCoverWordleSolver"
    THEN {ExperiencedOverrides3, ExperiencedOverrides4}
    ELSE IF solver_ = "NewThreeCoverWordleSolver"
    THEN {NewOverrides2, NewOverrides3, NewOverrides4}
    ELSE {}

OverrideKeys ==
    UNION {{table[k].key : k \in 1..Len(table)} :
              table \in OverrideTables("ExperiencedThreeCoverWordleSolver")
                        \cup OverrideTables("NewThreeCoverWordleSolver")}

KeyPrefixes == {SubSeq(key, 1, Len(key) - 1) : key \in OverrideKeys}

InitSuggestGuess ==
    /\ NoSession
    /\ args \in {[solver |-> sv, guess_hints |-> gh, candidates |-> cs] :
                    sv \in {"ExperiencedThreeCoverWordleSolver", "NewThreeCoverWordleSolver"},
                    gh \in OverrideKeys \cup KeyPrefixes,
                    cs \in ShortWordLists \cup {ALL_WORDS}}
    /\ fn = "" /\ out = <<>>

CallSuggestGuess ==
    /\ fn = ""
    /\ fn' = "SuggestGuess"
    /\ out' = SuggestGuessOf(args.solver, args.guess_hints, args.candidates)
    /\ UNCHANGED callFrame

SpecSuggestGuess == InitSuggestGuess /\ [][CallSuggestGuess]_vars

(***************************************************************************)
(* A solver object under its callers.  SuggestGuess and MakeGuess are      *)
(* public methods: TrySolve and Solve call SuggestGuess before every       *)
(* MakeGuess, TrySolveWeb calls MakeGuess alone for a guess that is        *)
(* already on the page.  This specification has the two calls in any       *)
(* order, with the hints of a game that holds the word answer.             *)
(***************************************************************************)
InitSolver ==
    /\ solver \in Solvers
    /\ driver = ""
    /\ answer \in SetOf(ALL_WORDS)
    /\ guess_hints = <<>>
    /\ candidates = ALL_WORDS
    /\ ret = None
    /\ pc = "new"
    /\ attempt = 0
    /\ driver_guess = None /\ driver_hints = None /\ result = <<>>
    /\ args = NoCall.args /\ fn = NoCall.fn /\ out = NoCall.out

\* solver.SuggestGuess()
CallSolverSuggestGuess ==
    /\ pc \in {"new", "suggested", "recorded"}
    /\ LET r == SuggestGuessOf(solver, guess_hints, candidates)
       IN /\ candidates' = r.candidates
          /\ ret' = r.value
          /\ pc' = IF r.raised THEN "aborted" ELSE "suggested"
    /\ UNCHANGED <<solver, driver, answer, guess_hints, attempt, driver_guess,
                   driver_hints, result, args, fn, out>>

\* solver.MakeGuess(guess, hints), of the last suggestion or of another word
\* of the lexicon; at most MaxAttempts guesses fit on the board.
CallSolverMakeGuess ==
    /\ pc \in {"new", "suggested", "recorded"}
    /\ Len(guess_hints) < MaxAttempts
    /\ \E guess \in {g \in UserGuesses \cup {ret} : In(g, ALL_WORDS)} :
          LET hints == GetHints(guess, answer)
          IN /\ hints # AllMatch
             /\ guess_hints' = Append(guess_hints, <<guess, hints>>)
             /\ candidates' = FilterByHints(candidates, guess, hints)
    /\ pc' = "recorded"
    /\ UNCHANGED <<solver, driver, answer, ret, attempt, driver_guess,
                   driver_hints, result, args, fn, out>>

SpecSolver == InitSolver /\ [][CallSolverSuggestGuess \/ CallSolverMakeGuess]_vars

(***************************************************************************)
(* The properties.                                                         *)
(***************************************************************************)

\* C1: for every guess and answer of equal length, GetHints gives one symbol
\* per position of the guess: M iff the letters at that position are equal,
\* otherwise O iff the guessed letter occurs anywhere in the answer, and
\* otherwise X.
C1_GetHintsRule ==
    fn = "GetHints" =>
        /\ Len(out) = Len(args.guess)
        /\ \A i \in 1..Len(args.guess) :
              LET letter == args.guess[i]
              IN /\ (out[i] = "M") <=> (letter = args.answer[i])
                 /\ (out[i] = "O") <=> (letter # args.answer[i] /\ letter \in SetOf(args.answer))
                 /\ (out[i] = "X") <=> (letter \notin SetOf(args.answer))

\* A guess that holds a letter twice, both times displaced, against an answer
\* that holds it once: both places get O.
C1_Witness ==
    /\ fn = "GetHints"
    /\ \E i, j \in 1..Len(args.guess) :
          /\ i < j
          /\ args.guess[i] = args.guess[j]
          /\ out[i] = "O" /\ out[j] = "O"
          /\ Cardinality({k \in 1..Len(args.answer) : args.answer[k] = args.guess[i]}) = 1
    /\ "M" \in SetOf(out) /\ "X" \in SetOf(out)

\* The three rules of the matcher, position by position.
ConsistentAt(word, guess, hints, i) ==
    /\ hints[i] = "M" => word[i] = guess[i]
    /\ hints[i] = "O" => (word[i] # guess[i] /\ guess[i] \in SetOf(word))
    /\ hints[i] = "X" => guess[i] \notin SetOf(word)

Consistent(word, guess, hints) ==
    \A i \in 1..Len(hints) : ConsistentAt(word, guess, hints, i)

\* C2: FilterByHints(S, guess, pattern) is the sub-sequence of S, in the order
\* of S, of exactly the words that satisfy the rule of every position.
C2_FilterExact ==
    fn = "FilterByHints" =>
        out = SelectSeq(args.words, LAMBDA w : Consistent(w, args.guess, args.hints))

\* A list of two words of which an O rule drops the first and keeps the second.
C2_Witness ==
    /\ fn = "FilterByHints"
    /\ Len(args.words) = 2
    /\ out = <<args.words[2]>>
    /\ args.words[1] # args.words[2]
    /\ \E i \in 1..Len(args.hints) :
          /\ args.hints[i] = "O"
          /\ ~ConsistentAt(args.words[1], args.guess, args.hints, i)

\* The words of a list the frequency table is taken of: its valid answers.
ReferenceWords(words) == {k \in 1..Len(words) : words[k] \in VALID_ANSWER_SET}

\* C3: the frequency table maps each letter to the number of reference words
\* that contain the letter at least once (a repeated letter counts once).
C3_CountsWordsNotOccurrences ==
    fn = "GetLetterFrequencies" =>
        \A letter \in Letters :
            out[letter] =
                Cardinality({k \in ReferenceWords(args.words) : letter \in SetOf(args.words[k])})

\* The score of the letters of two or three words together, by the table of
\* the list the search runs on.
UnionScore(words, S) == SumFreq(UNION {SetOf(w) : w \in S}, GetLetterFrequencies(words))

Max(S) == CHOOSE x \in S : \A y \in S : y <= x

\* The sets {i, j} and {i, j, k} of distinct places of a list.
PlacePairs(I) == {P \in SUBSET I : Cardinality(P) = 2}
PlaceTriples(I) == {P \in SUBSET I : Cardinality(P) = 3}

\* All tuples of words at the places of Ps whose score is the highest of Ps.
BruteForce(words, Ps) ==
    LET score(P) == UnionScore(words, {words[k] : k \in P})
    IN {{words[k] : k \in P} : P \in {Q \in Ps : score(Q) = Max({score(R) : R \in Ps})}}

AsSets(tuples) == {SetOf(tuples[k]) : k \in 1..Len(tuples)}

\* C4: the pruned pair search returns exactly the pairs of distinct entries
\* of the list whose score is the highest of all pairs, each once: the
\* result of the enumeration of every pair.
C4_PairsEqualBruteForce ==
    fn = "GetWordPairsWithHighestLetterFrequencies" =>
        LET best == BruteForce(args.words, PlacePairs(1..Len(args.words)))
        IN /\ AsSets(out) = best
           /\ Len(out) = Cardinality(best)

\* A list where the cut can apply (two words whose scores add up to less than
\* the best pair's score) and several pairs are best.
C4_Witness ==
    /\ fn = "GetWordPairsWithHighestLetterFrequencies"
    /\ Len(out) >= 2
    /\ \E P \in PlacePairs(1..Len(args.words)) :
          LET a == CHOOSE k \in P : TRUE
              b == CHOOSE k \in P : k # a
          IN UnionScore(args.words, {args.words[a]}) + UnionScore(args.words, {args.words[b]})
                < UnionScore(args.words, SetOf(out[1]))

\* C5 as claimed: the triple search returns exactly the triples of distinct
\* entries of the list whose score is the highest of all 3-word combinations
\* of the list, also when several words of the list have the same letters.
C5_TriplesEqualBruteForce ==
    fn = "GetWordTriplesWithHighestLetterFrequencies" =>
        LET best == BruteForce(args.words, PlaceTriples(1..Len(args.words)))
        IN /\ AsSets(out) = best
           /\ Len(out) = Cardinality(best)

\* The places of the words that stand for their letter set: of the words
\* with the same set of distinct letters, the last one in the list.
RepresentativePlaces(words) ==
    {k \in 1..Len(words) :
        \A m \in (k + 1)..Len(words) : SetOf(words[m]) # SetOf(words[k])}

\* C5 as amended: the triple search returns exactly, each once, the triples
\* whose score is the highest of all 3-word combinations of the
\* representative words of the list (one word per set of distinct letters,
\* the last such word of the list).
C5_TriplesOfRepresentatives ==
    fn = "GetWordTriplesWithHighestLetterFrequencies" =>
        LET best == BruteForce(args.words, PlaceTriples(RepresentativePlaces(args.words)))
        IN /\ AsSets(out) = best
           /\ Len(out) = Cardinality(best)

\* A list with two words of the same letters, of which the later one is in a
\* best triple.
C5_Witness ==
    /\ fn = "GetWordTriplesWithHighestLetterFrequencies"
    /\ Len(out) >= 1
    /\ \E k \in 1..Len(args.words) :
          /\ k \notin RepresentativePlaces(args.words)
          /\ \E t \in 1..Len(out) : \E w \in SetOf(out[t]) :
                SetOf(w) = SetOf(args.words[k])
    /\ Cardinality(RepresentativePlaces(args.words)) >= 3

\* C6 as claimed: the score of two words together is at most the sum of
\* their scores, and equals it iff the words share no letter.
C6_EqualIffDisjoint ==
    fn = "GetWordLetterFrequency" =>
        LET shared == SetOf(args.words[args.i]) \cap SetOf(args.words[args.j])
        IN /\ out.freq <= out.word1_freq + out.word2_freq
           /\ (out.freq = out.word1_freq + out.word2_freq) <=> (shared = {})

\* C6 as amended: the score of two words together is at most the sum of
\* their scores, and equals it iff every letter the words share has
\* frequency 0 in the table (so in particular when they share no letter).
C6_EqualIffSharedLettersCountZero ==
    fn = "GetWordLetterFrequency" =>
        LET shared == SetOf(args.words[args.i]) \cap SetOf(args.words[args.j])
            letter_freq == GetLetterFrequencies(args.words)
        IN /\ out.freq <= out.word1_freq + out.word2_freq
           /\ (out.freq = out.word1_freq + out.word2_freq)
                 <=> (\A letter \in shared : letter_freq[letter] = 0)

\* Two words that share letters, all of frequency 0, and score the sum of
\* their scores, which is not 0.
C6_Witness ==
    /\ fn = "GetWordLetterFrequency"
    /\ SetOf(args.words[args.i]) \cap SetOf(args.words[args.j]) # {}
    /\ out.freq = out.word1_freq + out.word2_freq
    /\ out.word1_freq > 0 /\ out.word2_freq > 0

\* The fixed opening words of a solver class.
OpeningWords(solver_) ==
    CASE solver_ = "AudioLeftyWordleSolver" -> {AUDIO, LEFTY}
      [] solver_ = "ThreeCoverWordleSolver" -> SetOf(ThreeCover_best_triple)
      [] solver_ = "ExperiencedThreeCoverWordleSolver" -> SetOf(Experienced_best_triple)
      [] solver_ = "NewThreeCoverWordleSolver" -> SetOf(New_best_triple)
      [] OTHER -> {}

\* SuggestGuess has just returned a word.
Suggested == pc \in {"guess", "hints"} /\ ret # None

\* C7: in every state of a session, the word SuggestGuess returned conforms
\* to all hints revealed so far: MatchesHints(suggestion, g, h) for every
\* (g, h) of the history.
C7_SuggestionMatchesAllHints ==
    Suggested =>
        \A k \in 1..Len(guess_hints) :
            MatchesHints(ret, guess_hints[k][1], guess_hints[k][2])

\* C8: once the history is not empty, a word SuggestGuess returns that is
\* not one of the solver's fixed opening words is one of the candidates.
C8_SuggestionIsCandidate ==
    (Suggested /\ guess_hints # <<>> /\ ret \notin OpeningWords(solver)) =>
        In(ret, candidates)

\* C9: when SuggestGuess is called with no candidate left, it returns None
\* and does not end in a failure.
C9_NoneWhenNoCandidates ==
    [][(pc = "suggest" /\ candidates = <<>>) => (pc' # "aborted" /\ ret' = None)]_vars

\* s is t with some entries left out.
RECURSIVE IsSubSequence(_, _)
IsSubSequence(s, t) ==
    IF s = <<>> THEN TRUE
    ELSE IF t = <<>> THEN FALSE
    ELSE IF Head(s) = Head(t) THEN IsSubSequence(Tail(s), Tail(t))
    ELSE IsSubSequence(s, Tail(t))

\* C10: every SuggestGuess (with the RestrictCandidatesToValidAnswers it may
\* do) and every MakeGuess leaves a candidate list that is the list before it
\* with some words left out, and so such a part of the whole word list.
C10_CandidatesNeverGrow ==
    [][IsSubSequence(candidates', candidates) /\ IsSubSequence(candidates', ALL_WORDS)]_vars

\* After a guess and a restriction to the valid answers some but not all
\* words are left, and a word that is no valid answer still matches all hints.
C10_Witness ==
    /\ Suggested
    /\ guess_hints # <<>>
    /\ candidates # <<>>
    /\ candidates = RestrictCandidatesToValidAnswers(candidates)
    /\ \E w \in SetOf(VALID_NON_ANSWER_GUESSES) :
          \A k \in 1..Len(guess_hints) : MatchesHints(w, guess_hints[k][1], guess_hints[k][2])

\* A feedback string of exactly 5 symbols from M, O, X.
WellFormedHints(h) == Len(h) = 5 /\ \A i \in 1..Len(h) : h[i] \in {"M", "O", "X"}

\* C11: a step that reads a guess that is not in the vocabulary, or a
\* feedback string that is not exactly 5 symbols from M, O, X, leaves the
\* candidates and the history as they were and the driver at the same prompt,
\* so the input can be typed again; and no such guess or feedback is ever in
\* the history.
C11_RejectedInputChangesNothing ==
    /\ [][((pc = "guess" /\ driver_guess' \notin SetOf(ALL_WORDS))
            \/ (pc = "hints" /\ ~WellFormedHints(driver_hints')))
           => (/\ candidates' = candidates
               /\ guess_hints' = guess_hints
               /\ attempt' = attempt
               /\ pc' = pc)]_vars
    /\ [](\A k \in 1..Len(guess_hints) :
             /\ guess_hints[k][1] \in SetOf(ALL_WORDS)
             /\ WellFormedHints(guess_hints[k][2]))

\* After a recorded guess, a word outside the lexicon was typed and rejected,
\* then a valid guess was accepted, and a 5-symbol feedback string with a
\* symbol other than M, O, X has just been rejected.
C11_Witness ==
    /\ pc = "hints"
    /\ guess_hints # <<>>
    /\ Len(driver_hints) = 5
    /\ ~WellFormedHints(driver_hints)
    /\ driver_guess \in SetOf(ALL_WORDS)
    /\ driver_guess # ret

\* C12: from a state where the feedback of the last guess is MMMMM the only
\* step is the end of the session: nothing is suggested or recorded after it.
C12_NothingAfterAllMatch ==
    [][driver_hints = AllMatch
         => (pc' = "done" /\ UNCHANGED <<guess_hints, candidates, ret, attempt>>)]_vars

\* A session that ended on MMMMM after two recorded guesses.
C12_Witness ==
    /\ pc = "done"
    /\ driver_hints = AllMatch
    /\ Len(guess_hints) = 2

\* C13 as claimed: GetHints("CRANE", "TRACE") is "OXMMM".
C13_CraneTraceOXMMM ==
    (fn = "GetHints" /\ args.guess = CRANE /\ args.answer = TRACE) =>
        out = <<"O","X","M","M","M">>

\* C13 as amended: GetHints("CRANE", "TRACE") is "OMMXM": C is in TRACE at
\* another place, R, A and E are in place, N is not in TRACE.
C13_CraneTraceOMMXM ==
    (fn = "GetHints" /\ args.guess = CRANE /\ args.answer = TRACE) =>
        out = <<"O","M","M","X","M">>

\* GetHints has been called with the guess CRANE and the answer TRACE.
C13_Witness ==
    /\ fn = "GetHints"
    /\ args.guess = CRANE /\ args.answer = TRACE
    /\ Len(out) = 5

\* C14: a step that records a guess g with hints that are GetHints(g, a) for
\* a candidate a other than g leaves a among the candidates and g not.
C14_TruthfulHintsKeepAnswer ==
    [][guess_hints' # guess_hints =>
         \A a \in SetOf(candidates) :
             (a # driver_guess /\ GetHints(driver_guess, a) = driver_hints) =>
                 (In(a, candidates') /\ ~In(driver_guess, candidates'))]_vars

\* The last recorded guess is not the answer, its hints are the true ones and
\* hold an O, and the answer and another word are candidates.
C14_Witness ==
    /\ guess_hints # <<>>
    /\ LET last == guess_hints[Len(guess_hints)]
       IN /\ last[1] # answer
          /\ last[2] = GetHints(last[1], answer)
          /\ "O" \in SetOf(last[2])
    /\ In(answer, candidates)
    /\ Len(candidates) >= 2

\* C15: for every non-empty candidate list and every table taken of a
\* non-empty word list, GetWordWithHighestLetterFrequencies returns a
\* candidate whose score is the highest of the candidates' scores, and the
\* first candidate of the list with that score.
C15_ReturnsFirstBestCandidate ==
    (/\ fn = "GetWordWithHighestLetterFrequencies"
     /\ args.candidates # <<>>
     /\ args.words_for_freq # <<>>) =>
        LET letter_freq == GetLetterFrequencies(args.words_for_freq)
            score(k) == SumFreq(SetOf(args.candidates[k]), letter_freq)
            places == 1..Len(args.candidates)
        IN /\ ~out.raised
           /\ \E k \in places :
                 /\ out.value = args.candidates[k]
                 /\ \A m \in places : score(m) <= score(k)
                 /\ \A m \in 1..(k - 1) : score(m) < score(k)

\* C16: filtering the result of FilterByHints(S, g, p) by the same g and p
\* again gives that result again; so does recording (g, p) a second time,
\* which filters the filtered candidates once more.
C16_FilterIdempotent ==
    fn = "FilterByHints" =>
        FilterByHints(out, args.guess, args.hints) = out

\* A filtering that kept one word of a list and dropped another.
C16_Witness ==
    /\ fn = "FilterByHints"
    /\ out # <<>>
    /\ Len(out) < Len(args.words)

\* The word matches every (guess, hints) pair of the history.
MatchesHistory(word) ==
    \A k \in 1..Len(guess_hints) : MatchesHints(word, guess_hints[k][1], guess_hints[k][2])

\* The candidates are all the words of the lexicon that match the history,
\* in the order of the lexicon.
AllConsistentWords == candidates = SelectSeq(ALL_WORDS, MatchesHistory)

\* C17: in every state of a session every candidate is a word of the lexicon
\* that matches every pair of the history; the candidates are at first all
\* the lexicon words that match the history, in lexicon order, and stay so
\* over every step that records a guess; the only other steps that change
\* the candidates are the narrowings to the valid answers.
C17_CandidatesAreConsistentWords ==
    /\ [](\A i \in 1..Len(candidates) :
             In(candidates[i], ALL_WORDS) /\ MatchesHistory(candidates[i]))
    /\ AllConsistentWords
    /\ [][(guess_hints' # guess_hints /\ AllConsistentWords) => AllConsistentWords']_vars
    /\ [][(guess_hints' = guess_hints /\ candidates' # candidates)
             => candidates' = RestrictCandidatesToValidAnswers(candidates)]_vars

\* After two recorded guesses and no narrowing, some words are dropped, and a
\* word that is no valid answer is among the candidates.
C17_Witness ==
    /\ Len(guess_hints) >= 2
    /\ AllConsistentWords
    /\ Len(candidates) < Len(ALL_WORDS)
    /\ \E i \in 1..Len(candidates) : candidates[i] \notin VALID_ANSWER_SET
    /\ \E i \in 1..Len(candidates) : candidates[i] \in VALID_ANSWER_SET

\* The letter-set keys of a word list, the triples of distinct keys, and the
\* score of the letters of a set of keys by the table of the list.
KeysOf(words) == {SetOf(words[k]) : k \in 1..Len(words)}
KeyTriples(words) == {S \in SUBSET KeysOf(words) : Cardinality(S) = 3}
KeyScore(words, S) == SumFreq(UNION S, GetLetterFrequencies(words))

\* C18: over the letter-set keys of the list, the triple search with its two
\* cuts returns, each once, exactly the key triples that the enumeration of
\* every key triple finds best, all with the highest score of all key triples.
C18_CutsLoseNoBestTriple ==
    fn = "GetWordTriplesWithHighestLetterFrequencies" =>
        LET T == KeyTriples(args.words)
            best == {S \in T : \A R \in T : KeyScore(args.words, R) <= KeyScore(args.words, S)}
            found == {{SetOf(out[t][n]) : n \in 1..3} : t \in 1..Len(out)}
        IN /\ found = best
           /\ Len(out) = Cardinality(best)
           /\ \A S \in found : \A R \in T : KeyScore(args.words, R) <= KeyScore(args.words, S)

\* A list of at least four keys with two keys a, b whose bound
\* score(a) + 2 * score(b) is below the score of the best triple, and with
\* several best triples.
C18_Witness ==
    /\ fn = "GetWordTriplesWithHighestLetterFrequencies"
    /\ Cardinality(KeysOf(args.words)) >= 4
    /\ Len(out) >= 2
    /\ \E a, b \in KeysOf(args.words) :
          /\ a # b
          /\ KeyScore(args.words, {b}) <= KeyScore(args.words, {a})
          /\ KeyScore(args.words, {a}) + 2 * KeyScore(args.words, {b})
                < KeyScore(args.words, {SetOf(out[1][n]) : n \in 1..3})

\* The guesses TrySolve has made: the recorded ones and, once a guess got
\* MMMMM, that guess.
NoRecordedGuessIsAnswer == \A k \in 1..Len(guess_hints) : guess_hints[k][1] # answer

\* C19: a TrySolve session never ends in a failure and never records more
\* than 6 guesses; when it is over it has returned n in 1..6 if the n-th
\* suggested guess was the first to equal the answer, and 0 if none of the 6
\* suggested guesses did.
C19_TrySolveReturnsAttempts ==
    driver = "TrySolve" =>
        /\ pc # "aborted"
        /\ Len(guess_hints) <= 6
        /\ pc = "done" =>
              /\ result \in {<<n>> : n \in 0..6}
              /\ NoRecordedGuessIsAnswer
              /\ result # <<0>> => (ret = answer /\ result = <<Len(guess_hints) + 1>>)
              /\ result = <<0>> => (Len(guess_hints) = 6 /\ ret # None)

\* C20: when the history equals a key of an override table of the solver's
\* class, SuggestGuess returns the guess of that key, whatever the candidates
\* are (also none, or few enough for the threshold rule).
C20_OverridesComeFirst ==
    fn = "SuggestGuess" =>
        \A table \in OverrideTables(args.solver) : \A k \in 1..Len(table) :
            table[k].key = args.guess_hints =>
                (~out.raised /\ out.value = table[k].guess)

\* The history is a key of two pairs, and the candidates are few enough for
\* the threshold rule and hold a valid answer: the override word is returned
\* and is none of the candidates.
C20_Witness ==
    /\ fn = "SuggestGuess"
    /\ \E table \in OverrideTables(args.solver) : \E k \in 1..Len(table) :
          table[k].key = args.guess_hints
    /\ Len(args.guess_hints) < 3
    /\ Len(args.candidates) <= Threshold(Len(args.guess_hints))
    /\ \E i \in 1..Len(args.candidates) : args.candidates[i] \in VALID_ANSWER_SET
    /\ ~In(out.value, args.candidates)

\* The solver classes that open with a fixed triple of words.
ThreeCoverSolvers ==
    {"ThreeCoverWordleSolver", "ExperiencedThreeCoverWordleSolver",
     "NewThreeCoverWordleSolver"}

OnlyValidAnswers(words) == \A i \in 1..Len(words) : words[i] \in VALID_ANSWER_SET

\* C21: for a three-cover solver under any sequence of SuggestGuess and
\* MakeGuess calls, a word that SuggestGuess has just returned with 4 or more
\* pairs in the history is a valid answer; and candidates that are all valid
\* answers stay so over every step.
C21_OnlyValidAnswersAfterFour ==
    /\ []((solver \in ThreeCoverSolvers /\ pc = "suggested" /\ Len(guess_hints) >= 4)
            => ret \in VALID_ANSWER_SET)
    /\ [][OnlyValidAnswers(candidates) => OnlyValidAnswers(candidates')]_vars

\* C22: when exactly one candidate is left after a guess was recorded, the
\* next SuggestGuess of the default solver (NewThreeCoverWordleSolver)
\* returns that candidate, at every turn.
C22_UniqueCandidateSuggested ==
    [][(/\ pc = "recorded" /\ pc' # "recorded"
        /\ solver = "NewThreeCoverWordleSolver"
        /\ Len(candidates) = 1)
          => (pc' = "suggested" /\ ret' = candidates[1])]_vars

\* C23: every step of a session leaves the history as it is or appends one
\* pair to it, the guess and hints just read, with all earlier entries as
\* they were; a SuggestGuess step (with the RestrictCandidatesToValidAnswers
\* it may do) leaves the history as it is; and the history has one entry per
\* completed turn.
C23_HistoryAppendOnly ==
    /\ [][\/ guess_hints' = guess_hints
          \/ /\ pc = "check"
             /\ guess_hints' = Append(guess_hints, <<driver_guess, driver_hints>>)
             /\ SubSeq(guess_hints', 1, Len(guess_hints)) = guess_hints]_vars
    /\ [][pc = "suggest" => guess_hints' = guess_hints]_vars
    /\ [](Len(guess_hints) = attempt)

\* Three guesses are recorded, the last differs from the first, and the
\* SuggestGuess after them has narrowed the candidates.
C23_Witness ==
    /\ Suggested
    /\ Len(guess_hints) = 3
    /\ guess_hints[3] # guess_hints[1]
    /\ candidates # <<>>
    /\ OnlyValidAnswers(candidates)

\* C24: for every word w, guess g and pattern h over M, O, X of the length of
\* the words, MatchesHints(w, g, h) is true exactly when GetHints(g, w) is h;
\* and FilterByHints(S, g, h) is the list of the words of S, in their order,
\* for which GetHints(g, word) is h.
C24_MatcherInvertsOracle ==
    fn = "FilterByHints" =>
        /\ \A w \in PureWords \cup SetOf(ALL_WORDS) :
              Len(w) = Len(args.guess) =>
                 (MatchesHints(w, args.guess, args.hints)
                     <=> GetHints(args.guess, w) = args.hints)
        /\ out = SelectSeq(args.words, LAMBDA w : GetHints(args.guess, w) = args.hints)

\* A pattern of five symbols with M, O and X in it that keeps some words of
\* the lexicon and drops others.
C24_Witness ==
    /\ fn = "FilterByHints"
    /\ Len(args.hints) = 5
    /\ {"M", "O", "X"} \subseteq SetOf(args.hints)
    /\ out # <<>>
    /\ Len(out) < Len(args.words)

====
